---------------------------- MODULE Spec2Model ----------------------------
(***************************************************************************)
(* State-machine model of the ASCON core of rweather/ascon-arduino:        *)
(*   - ASCON-80pq-SIV encrypt / decrypt          (src/unnamed/part_000)    *)
(*   - the 4-share masked permutation            (utility/ascon-x4-c32.c)  *)
(*   - the incremental XOF / XOFA state machine  (ascon-xof.h)             *)
(*                                                                         *)
(* A machine word is modelled as the set of the positions of its 1 bits    *)
(* (bit 0 is the least significant bit), so that XOR, AND, NOT and the     *)
(* rotations are computed bit for bit at the word's true width.  A byte    *)
(* held in a caller's buffer is an integer 0..255.                         *)
(***************************************************************************)
EXTENDS Integers, Sequences, FiniteSets, TLC

(***************************************************************************)
(* Words as bit sets                                                       *)
(***************************************************************************)
Bits(w) == 0 .. (w - 1)

XorW(w, a, b) == {i \in Bits(w) : (i \in a) # (i \in b)}
AndW(w, a, b) == {i \in Bits(w) : (i \in a) /\ (i \in b)}
NotW(w, a) == {i \in Bits(w) : i \notin a}
\* rotate right by n: bit i of the result is bit (i + n) mod w of a
RotrW(w, a, n) == {i \in Bits(w) : ((i + n) % w) \in a}
\* rotate left by n: bit i of the result is bit (i - n) mod w of a
RotlW(w, a, n) == {i \in Bits(w) : ((i + w - n) % w) \in a}

\* e, evaluated once v has been: TLC evaluates an operator's arguments on
\* demand, and a long chain of pending steps would nest too deep
After(v, e) == IF v = v THEN e ELSE e

RECURSIVE Pow2(_)
Pow2(n) == IF n = 0 THEN 1 ELSE 2 * Pow2(n - 1)

Byte == 0 .. 255
\* the bits of a byte value, and back
ByteBits(v) == {b \in 0 .. 7 : (v \div Pow2(b)) % 2 = 1}
RECURSIVE BitsVal(_, _)
BitsVal(s, n) ==
  IF n = 0 THEN 0
  ELSE (IF (n - 1) \in s THEN Pow2(n - 1) ELSE 0) + BitsVal(s, n - 1)
BitsByte(s) == BitsVal(s, 8)
xor8(a, b) == BitsByte(XorW(8, ByteBits(a), ByteBits(b)))

\* a cell of a caller's buffer that no store has reached yet
Unwritten == 255 + 1
Fresh(n) == [i \in 1 .. n |-> Unwritten]
Zeros(n) == [i \in 1 .. n |-> 0]
\* buf with the bytes of data stored at offset off (0-based), as memcpy does
Store(buf, off, data) ==
  [i \in 1 .. Len(buf) |->
     IF i > off /\ i <= off + Len(data) THEN data[i - off] ELSE buf[i]]
\* the n bytes at offset off (0-based) of buf
Slice(buf, off, n) == [i \in 1 .. n |-> buf[off + i]]

(***************************************************************************)
(* The ASCON permutation on five 64-bit words (ascon_permute)              *)
(***************************************************************************)
\* the ASCON round constants, round 0 .. 11
RoundConstants == <<240, 225, 210, 195, 180, 165, 150, 135, 120, 105, 90, 75>>

X64(a, b) == XorW(64, a, b)
\* x ^ (~y & z)
Chi64(x, y, z) == {i \in Bits(64) : (i \in x) # (i \notin y /\ i \in z)}
\* x ^ rotr(x, r1) ^ rotr(x, r2)
Sigma64(x, r1, r2) ==
  {i \in Bits(64) :
     ((i \in x) # (((i + r1) % 64) \in x)) # (((i + r2) % 64) \in x)}

\* one round r of the permutation on s = <<X0, X1, X2, X3, X4>>
ascon_round(s, r) ==
  LET x0 == X64(s[1], s[5])
      x4 == X64(s[5], s[4])
      x2 == X64(X64(s[3], ByteBits(RoundConstants[r + 1])), s[2])
      x1 == s[2]
      x3 == s[4]
      y0 == Chi64(x0, x1, x2)
      y1 == Chi64(x1, x2, x3)
      y2 == Chi64(x2, x3, x4)
      y3 == Chi64(x3, x4, x0)
      y4 == Chi64(x4, x0, x1)
      z1 == X64(y1, y0)
      z0 == X64(y0, y4)
      z3 == X64(y3, y2)
      z2 == NotW(64, y2)
  IN  << Sigma64(z0, 19, 28),
         Sigma64(z1, 61, 39),
         Sigma64(z2, 1, 6),
         Sigma64(z3, 10, 17),
         Sigma64(y4, 7, 41) >>

\* rounds first_round .. 11
RECURSIVE ascon_permute(_, _)
ascon_permute(s, first_round) ==
  After(s, IF first_round >= 12 THEN s
           ELSE ascon_permute(ascon_round(s, first_round), first_round + 1))

(***************************************************************************)
(* Byte access to the state (utility/ascon-util-snp.h)                     *)
(*                                                                         *)
(* Byte j (0..39) of the regular serialisation is byte j % 8, counted from *)
(* the most significant end, of word j \div 8.                             *)
(***************************************************************************)
\* the word that has byte value v at byte offset j of the state, else zero
ByteAt(j, v) == {8 * (7 - (j % 8)) + b : b \in ByteBits(v)}
StateByte(s, j) ==
  BitsByte({b \in 0 .. 7 : (8 * (7 - (j % 8)) + b) \in s[(j \div 8) + 1]})

\* the 40 bytes of the big-endian serialisation, and the five words of it
ascon_to_regular(s) == [j \in 1 .. 40 |-> StateByte(s, j - 1)]
ascon_from_regular(B) ==
  LET W(i) ==
        {p \in Bits(64) :
           (p % 8) \in ByteBits(B[8 * (i - 1) + (7 - (p \div 8)) + 1])}
  IN  <<W(1), W(2), W(3), W(4), W(5)>>

\* XOR byte v into byte j of the state
XorByte(s, j, v) ==
  LET W(i) == IF i = (j \div 8) + 1 THEN X64(s[i], ByteAt(j, v)) ELSE s[i]
  IN  <<W(1), W(2), W(3), W(4), W(5)>>

\* XOR the first size bytes of data into the state from byte offset on
RECURSIVE ascon_absorb_partial(_, _, _, _)
ascon_absorb_partial(s, data, offset, size) ==
  After(s, IF size = 0 THEN s
           ELSE ascon_absorb_partial(XorByte(s, offset + size - 1, data[size]),
                                     data, offset, size - 1))
ascon_absorb_8(s, data, offset) == ascon_absorb_partial(s, data, offset, 8)
ascon_absorb_16(s, data, offset) == ascon_absorb_partial(s, data, offset, 16)
ascon_squeeze_partial(s, offset, size) ==
  [i \in 1 .. size |-> StateByte(s, offset + i - 1)]
ascon_squeeze_8(s, offset) == ascon_squeeze_partial(s, offset, 8)
ascon_squeeze_16(s, offset) == ascon_squeeze_partial(s, offset, 16)
\* the 0x80 padding byte at byte offset, the 0x01 separator in the last byte
ascon_pad(s, offset) == XorByte(s, offset, 128)
ascon_separator(s) == XorByte(s, 39, 1)

(***************************************************************************)
(* Helpers of the AEAD modes (utility/ascon-aead-common.h)                 *)
(***************************************************************************)
\* absorb data in 8-byte blocks, pad the last block, permute it on request
RECURSIVE ascon_aead_absorb_8(_, _, _, _)
ascon_aead_absorb_8(s, data, first_round, last_permute) ==
  After(s,
  IF Len(data) >= 8
  THEN ascon_aead_absorb_8(
         ascon_permute(ascon_absorb_8(s, data, 0), first_round),
         SubSeq(data, 9, Len(data)), first_round, last_permute)
  ELSE LET padded == ascon_pad(ascon_absorb_partial(s, data, 0, Len(data)),
                               Len(data))
       IN  IF last_permute THEN ascon_permute(padded, first_round) ELSE padded)

\* dest = src1 XOR src2 over len bytes
lw_xor_block_2_src(src1, src2, len) == [i \in 1 .. len |-> xor8(src1[i], src2[i])]

\* accum |= tag1[i] ^ tag2[i] over the first size bytes
RECURSIVE TagDiff(_, _, _)
TagDiff(tag1, tag2, size) ==
  IF size = 0 THEN {}
  ELSE ByteBits(xor8(tag1[size], tag2[size])) \cup TagDiff(tag1, tag2, size - 1)

\* the constant-time tag check: the plaintext ANDed with the all-ones or
\* all-zero mask, and the result 0 (match) or -1 (mismatch)
ascon_aead_check_tag(plaintext, plaintext_len, tag1, tag2, size) ==
  LET accum == (BitsByte(TagDiff(tag1, tag2, size)) - 1) \div 256
  IN  [m |-> [i \in 1 .. Len(plaintext) |->
                IF i <= plaintext_len
                THEN BitsByte(AndW(8, ByteBits(plaintext[i]), ByteBits(accum % 256)))
                ELSE plaintext[i]],
       ret |-> (0 - accum) - 1]

(***************************************************************************)
(* ASCON-80pq-SIV (src/unnamed/part_000)                                   *)
(***************************************************************************)
ASCON80PQ_KEY_SIZE == 20
ASCON80PQ_NONCE_SIZE == 16
ASCON80PQ_TAG_SIZE == 16
\* the initialisation vectors 0xa1400c06 and 0xa2400c06, as be_store_word32
\* lays them out
ASCON80PQ_IV1 == <<161, 64, 12, 6>>
ASCON80PQ_IV2 == <<162, 64, 12, 6>>

ascon80pq_siv_init(npub, k, iv) ==
  LET B == iv \o k \o npub
      s == ascon_permute(ascon_from_regular(B), 0)
  IN  ascon_absorb_partial(s, k, 20, ASCON80PQ_KEY_SIZE)

\* OFB keystream over src: r = [state, dest, block] after the bytes done
RECURSIVE siv_blocks(_, _, _)
siv_blocks(r, src, first_round) ==
  After(r,
  IF Len(src) >= 8
  THEN LET s1 == ascon_permute(r.state, first_round)
           blk == ascon_squeeze_8(s1, 0)
       IN  siv_blocks([state |-> s1,
                       dest |-> r.dest \o lw_xor_block_2_src(blk, src, 8),
                       block |-> blk],
                      SubSeq(src, 9, Len(src)), first_round)
  ELSE IF Len(src) > 0
  THEN LET s1 == ascon_permute(r.state, first_round)
           blk == ascon_squeeze_8(s1, 0)
       IN  [state |-> s1,
            dest |-> r.dest \o lw_xor_block_2_src(blk, src, Len(src)),
            block |-> blk]
  ELSE r)

\* fault: each block of src is absorbed into the state, as a duplex would
RECURSIVE siv_blocks_feedback(_, _, _)
siv_blocks_feedback(r, src, first_round) ==
  After(r,
  IF Len(src) > 0
  THEN LET n == IF Len(src) >= 8 THEN 8 ELSE Len(src)
           s1 == ascon_permute(r.state, first_round)
           blk == ascon_squeeze_8(s1, 0)
       IN  siv_blocks_feedback(
             [state |-> ascon_absorb_partial(s1, SubSeq(src, 1, n), 0, n),
              dest |-> r.dest \o lw_xor_block_2_src(blk, src, n),
              block |-> blk],
             SubSeq(src, n + 1, Len(src)), first_round)
  ELSE r)
ascon_siv_encrypt_8_80pq_feedback(s, src, first_round) ==
  siv_blocks_feedback([state |-> s, dest |-> <<>>, block |-> Fresh(8)],
                      src, first_round)

\* fault: the block after the last whole one is left out (no `if (len > 0)`)
ascon_siv_encrypt_8_80pq_whole_blocks(s, src, first_round) ==
  siv_blocks([state |-> s, dest |-> <<>>, block |-> Fresh(8)],
             SubSeq(src, 1, 8 * (Len(src) \div 8)), first_round)

ascon_siv_encrypt_8_80pq(s, src, first_round) ==
  siv_blocks([state |-> s, dest |-> <<>>, block |-> Fresh(8)], src, first_round)

\* fault: the associated data is never absorbed
siv_auth_state_no_ad(nonce, key, adata, msg) ==
  ascon_aead_absorb_8(
    ascon_separator(ascon80pq_siv_init(nonce, key, ASCON80PQ_IV1)),
    msg, 6, FALSE)

\* the authentication phase shared by encrypt and decrypt (lines 103-113,
\* 151-161): init with IV1, the associated data, the separator, the message
siv_auth_state(nonce, key, adata, msg) ==
  LET s0 == ascon80pq_siv_init(nonce, key, ASCON80PQ_IV1)
      s1 == IF Len(adata) > 0 THEN ascon_aead_absorb_8(s0, adata, 6, TRUE) ELSE s0
      s2 == ascon_separator(s1)
  IN  ascon_aead_absorb_8(s2, msg, 6, FALSE)

\* fault: the key is absorbed over the 8 bytes of X1 alone
siv_tag_key_xor_8(s, key) == ascon_absorb_partial(s, key, 8, 8)
\* lines 116 and 164: ascon_absorb_partial(&state, k, 8, ASCON80PQ_KEY_SIZE)
siv_tag_key_xor(s, key) == ascon_absorb_partial(s, key, 8, ASCON80PQ_KEY_SIZE)

\* the tag derivation shared by encrypt and decrypt (lines 116-118, 164-166)
siv_tag_state(s, key) ==
  LET s1 == siv_tag_key_xor(s, key)
      s2 == ascon_permute(s1, 0)
  IN  ascon_absorb_16(s2, SubSeq(key, 5, 20), 24)

\* fault: the tag is left out of the ciphertext length
siv_encrypt_clen_no_tag(mlen) == mlen
\* line 100: *clen
siv_encrypt_clen(mlen) == mlen + ASCON80PQ_TAG_SIZE

\* fault: the encryption phase starts from the caller's nonce
siv_decrypt_nonce_npub(cbuf, n, nonce) == nonce
\* line 122 (c + mlen) and line 145 (c + clen): the nonce of the encryption
\* phase is the tag that follows the n body bytes
siv_encrypt_nonce(cbuf, n) == Slice(cbuf, n, ASCON80PQ_NONCE_SIZE)
siv_decrypt_nonce(cbuf, n, nonce) == Slice(cbuf, n, ASCON80PQ_NONCE_SIZE)

\* fault: the tag check is given no plaintext to clear
siv_decrypt_check_no_clear(mbuf, n, B, cbuf) ==
  ascon_aead_check_tag(mbuf, 0, Slice(B, 24, ASCON80PQ_TAG_SIZE),
                       Slice(cbuf, n, ASCON80PQ_TAG_SIZE), ASCON80PQ_TAG_SIZE)
\* lines 168-169: the tag at state.B + 24 against the one at c + clen
siv_decrypt_check(mbuf, n, B, cbuf) ==
  ascon_aead_check_tag(mbuf, n, Slice(B, 24, ASCON80PQ_TAG_SIZE),
                       Slice(cbuf, n, ASCON80PQ_TAG_SIZE), ASCON80PQ_TAG_SIZE)

(***************************************************************************)
(* The 4-share masked permutation, 32-bit sliced                           *)
(* (src/src/utility/ascon-x4-c32.c)                                        *)
(*                                                                         *)
(* A masked word M[i] holds eight 32-bit words W[0..7]: the even and the   *)
(* odd bits of share a, then of shares b, c and d.  Shares are numbered    *)
(* a = 0 .. d = 3 and the two halves are "e" and "o".                      *)
(***************************************************************************)
W32 == Bits(32)
X32(a, b) == XorW(32, a, b)
rightRotate(a, n) == RotrW(32, a, n)
leftRotate(a, n) == RotlW(32, a, n)
\* the bits of a small constant as a 32-bit word
Word32(v) == {b \in 0 .. 7 : (v \div Pow2(b)) % 2 = 1}

\* share J carried into the rotation of share I (I > J), and back
\* (ascon_mask32_rotate_shareI_J, ascon_mask32_unrotate_shareI_J)
ascon_mask32_rotate_share(I, J, a) == rightRotate(a, 5 * (I - J))
ascon_mask32_unrotate_share(I, J, a) == leftRotate(a, 5 * (I - J))

\* the word that line "x_i ^= (... y_j ...) & z_i" of and_not_xor ANDs with z_i
share_term(i, j, y) ==
  LET v == IF j = 0 THEN NotW(32, y[0]) ELSE y[j]
  IN  IF j < i THEN ascon_mask32_rotate_share(i, j, v)
      ELSE IF j > i THEN ascon_mask32_unrotate_share(j, i, v)
      ELSE v

\* the four shares of a half and the five words of a state, numbered from 0
\* as in the source; :> and @@ build the function at once, where a function
\* constructor would be evaluated again at every use
Shares(a, b, c, d) == (0 :> a) @@ (1 :> b) @@ (2 :> c) @@ (3 :> d)
Words(a, b, c, d, e) == (0 :> a) @@ (1 :> b) @@ (2 :> c) @@ (3 :> d) @@ (4 :> e)
\* x ^= y, share by share
xor_shares(x, y) ==
  Shares(X32(x[0], y[0]), X32(x[1], y[1]), X32(x[2], y[2]), X32(x[3], y[3]))

\* fault: the shares of y are combined without being rotated into place
and_not_xor_unrotated(x, y, z) ==
  LET share(i) ==
        {p \in W32 :
           ((((p \in x[i]) # (p \notin y[0] /\ p \in z[i]))
               # (p \in y[1] /\ p \in z[i]))
               # (p \in y[2] /\ p \in z[i]))
               # (p \in y[3] /\ p \in z[i])}
  IN  Shares(share(0), share(1), share(2), share(3))

\* x ^= (~y & z) on 4 shares: x, y, z are the four shares of one half
and_not_xor(x, y, z) ==
  LET share(i) ==
        LET t0 == share_term(i, 0, y)
            t1 == share_term(i, 1, y)
            t2 == share_term(i, 2, y)
            t3 == share_term(i, 3, y)
        IN  {p \in W32 :
               ((((p \in x[i]) # (p \in t0 /\ p \in z[i]))
                   # (p \in t1 /\ p \in z[i]))
                   # (p \in t2 /\ p \in z[i]))
                   # (p \in t3 /\ p \in z[i])}
  IN  Shares(share(0), share(1), share(2), share(3))

\* the 32-bit sliced linear layer on one share: X[i] = [e |-> .., o |-> ..]
linear(X) ==
  LET t0 == X32(X[0].e, rightRotate(X[0].o, 4))
      t1 == X32(X[0].o, rightRotate(X[0].e, 5))
      t2 == X32(X[1].e, rightRotate(X[1].e, 11))
      t3 == X32(X[1].o, rightRotate(X[1].o, 11))
      t4 == X32(X[2].e, rightRotate(X[2].o, 2))
      t5 == X32(X[2].o, rightRotate(X[2].e, 3))
      t6 == X32(X[3].e, rightRotate(X[3].o, 3))
      t7 == X32(X[3].o, rightRotate(X[3].e, 4))
      t8 == X32(X[4].e, rightRotate(X[4].e, 17))
      t9 == X32(X[4].o, rightRotate(X[4].o, 17))
  IN  Words([e |-> X32(X[0].e, rightRotate(t1, 9)),
             o |-> X32(X[0].o, rightRotate(t0, 10))],
            [e |-> X32(X[1].e, rightRotate(t3, 19)),
             o |-> X32(X[1].o, rightRotate(t2, 20))],
            [e |-> X32(X[2].e, t5),
             o |-> X32(X[2].o, rightRotate(t4, 1))],
            [e |-> X32(X[3].e, rightRotate(t6, 5)),
             o |-> X32(X[3].o, rightRotate(t7, 5))],
            [e |-> X32(X[4].e, rightRotate(t9, 3)),
             o |-> X32(X[4].o, rightRotate(t8, 4))])

\* fault: the constants are not inverted
ROUND_CONSTANT_PAIR_plain(rc1, rc2) == <<Word32(rc1), Word32(rc2)>>
\* the pre-inverted round constants, RC[0 .. 23]
ROUND_CONSTANT_PAIR(rc1, rc2) == <<NotW(32, Word32(rc1)), NotW(32, Word32(rc2))>>
RC ==
  LET T == ROUND_CONSTANT_PAIR(12, 12) \o ROUND_CONSTANT_PAIR(9, 12)
             \o ROUND_CONSTANT_PAIR(12, 9) \o ROUND_CONSTANT_PAIR(9, 9)
             \o ROUND_CONSTANT_PAIR(6, 12) \o ROUND_CONSTANT_PAIR(3, 12)
             \o ROUND_CONSTANT_PAIR(6, 9) \o ROUND_CONSTANT_PAIR(3, 9)
             \o ROUND_CONSTANT_PAIR(12, 6) \o ROUND_CONSTANT_PAIR(9, 6)
             \o ROUND_CONSTANT_PAIR(12, 3) \o ROUND_CONSTANT_PAIR(9, 3)
  IN  [i \in 0 .. 23 |-> T[i + 1]]

\* The substitution layer on one half (lines 183-236, 243-296), in the
\* order of the source.  Each step is an operator of the values the step
\* before it left, so that every value is written once.
\* the end: x1 ^= x0, x0 ^= x4, x3 ^= x2; x2 stays inverted in its first
\* share
x4_sbox_end(y0, y1, y2, y3, y4, t0n) ==
  [x |-> Words(xor_shares(y0, y4), xor_shares(y1, y0), y2,
               xor_shares(y3, y2), y4),
   t0 |-> t0n]
\* x4 ^= t0
x4_sbox_mix(y0, y1, y2, y3, x4, t0n) ==
  x4_sbox_end(y0, y1, y2, y3, xor_shares(x4, t0n), t0n)
\* the middle: t0 ^= (~x0) & x1, x0 ^= (~x1) & x2, .., x3 ^= (~x4) & t1,
\* where t1 is the x0 the start left
x4_sbox_chi(x0, x1, x2, x3, x4, t0r) ==
  x4_sbox_mix(and_not_xor(x0, x1, x2), and_not_xor(x1, x2, x3),
              and_not_xor(x2, x3, x4), and_not_xor(x3, x4, x0),
              x4, and_not_xor(t0r, x0, x1))
\* fault: the fourth share is the plain XOR of the three, not rotated into
\* the place of the fourth share
x4_t0_unrotated(t0) ==
  Shares(t0[0], t0[1], t0[2], X32(X32(t0[0], t0[1]), t0[2]))
\* the fourth share of the randomness, from the three that are carried
x4_t0(t0) ==
  Shares(t0[0], t0[1], t0[2],
         X32(X32(ascon_mask32_rotate_share(3, 0, t0[0]),
                 ascon_mask32_rotate_share(3, 1, t0[1])),
             ascon_mask32_rotate_share(3, 2, t0[2])))
\* x[i] is the four shares of word i in this half, t0 the three carried
\* shares of the randomness, c the inverted round constant of the half:
\* x2 ^= c in the first share, then x0 ^= x4, x4 ^= x3, x2 ^= x1
x4_sbox(x, t0, c) ==
  x4_sbox_chi(xor_shares(x[0], x[4]), x[1],
              xor_shares(Shares(X32(x[2][0], c), x[2][1], x[2][2], x[2][3]),
                         x[1]),
              x[3], xor_shares(x[4], x[3]), x4_t0(t0))

\* the two halves of share s after the substitution layer, as linear takes
\* them
x4_share(E, O, s) ==
  Words([e |-> E.x[0][s], o |-> O.x[0][s]],
        [e |-> E.x[1][s], o |-> O.x[1][s]],
        [e |-> E.x[2][s], o |-> O.x[2][s]],
        [e |-> E.x[3][s], o |-> O.x[3][s]],
        [e |-> E.x[4][s], o |-> O.x[4][s]])
\* word i of the locals, from the four shares l0 .. l3 that linear left
x4_word(l0, l1, l2, l3, i) ==
  [e |-> Shares(l0[i].e, l1[i].e, l2[i].e, l3[i].e),
   o |-> Shares(l0[i].o, l1[i].o, l2[i].o, l3[i].o)]
\* lines 319-324: the randomness is rotated for the next round
x4_carry(t) ==
  (0 :> rightRotate(t[0], 7)) @@ (1 :> rightRotate(t[1], 13))
    @@ (2 :> rightRotate(t[2], 29))
x4_locals(l0, l1, l2, l3, te, to) ==
  [x |-> Words(x4_word(l0, l1, l2, l3, 0), x4_word(l0, l1, l2, l3, 1),
               x4_word(l0, l1, l2, l3, 2), x4_word(l0, l1, l2, l3, 3),
               x4_word(l0, l1, l2, l3, 4)),
   t0 |-> [e |-> x4_carry(te), o |-> x4_carry(to)]]
\* lines 301-316: the linear diffusion layer on each share
x4_diffuse(E, O) ==
  x4_locals(linear(x4_share(E, O, 0)), linear(x4_share(E, O, 1)),
            linear(x4_share(E, O, 2)), linear(x4_share(E, O, 3)),
            E.t0, O.t0)
\* the words of one half of the locals
x4_half(L, w) == Words(L.x[0][w], L.x[1][w], L.x[2][w], L.x[3][w], L.x[4][w])

\* one pass of the loop body (lines 181-324): L = [x, t0], x[i][w][s] the
\* local xI_sw and t0[w][s] the local t0_sw (s = 3, the fourth share of t0,
\* is scratch by the end of a pass and is not carried); rc indexes RC
x4_round(L, rc) ==
  x4_diffuse(x4_sbox(x4_half(L, "e"), L.t0.e, RC[rc]),
             x4_sbox(x4_half(L, "o"), L.t0.o, RC[rc + 1]))

\* the 64-bit word whose even bits are e and whose odd bits are o
Interleave(e, o) ==
  {p \in Bits(64) : IF p % 2 = 0 THEN (p \div 2) \in e ELSE (p \div 2) \in o}
\* the value a masked word stands for: its shares rotated back and XORed
Unshare32(a, b, c, d) ==
  X32(X32(a, ascon_mask32_unrotate_share(1, 0, b)),
      X32(ascon_mask32_unrotate_share(2, 0, c),
          ascon_mask32_unrotate_share(3, 0, d)))
UnshareWord(Wd) ==
  Interleave(Unshare32(Wd[0], Wd[2], Wd[4], Wd[6]),
             Unshare32(Wd[1], Wd[3], Wd[5], Wd[7]))
\* the unmasked state <<X0, .., X4>> of a masked state
Unshare(MM) == <<UnshareWord(MM[0]), UnshareWord(MM[1]), UnshareWord(MM[2]),
                 UnshareWord(MM[3]), UnshareWord(MM[4])>>

(***************************************************************************)
(* ASCON-XOF and ASCON-XOFA in incremental mode (src/src/ascon-xof.h)      *)
(*                                                                         *)
(* An XOF object is [variant, state, count, mode]: ascon_xof_state_t or    *)
(* ascon_xofa_state_t (lines 60-78) with the variant it belongs to.  The   *)
(* header declares and documents the operations; their bodies follow the   *)
(* sponge of the specification, sections 4.2 and 4.3.                      *)
(***************************************************************************)
ASCON_HASH_SIZE == 32
ASCON_XOF_RATE == 8
\* the initialisation vectors 0x00400c0000000000 and 0x00400c0400000000
xof_iv(variant) ==
  IF variant = "xof" THEN <<0, 64, 12, 0, 0, 0, 0, 0>>
  ELSE <<0, 64, 12, 4, 0, 0, 0, 0>>
\* first_round of the permutation between blocks
xof_start_round(variant) == IF variant = "xof" THEN 0 ELSE 6

\* ascon_xof_init, ascon_xofa_init
ascon_xof_init(variant) ==
  [variant |-> variant,
   state |-> ascon_permute(ascon_from_regular(xof_iv(variant) \o Zeros(32)), 0),
   count |-> 0,
   mode |-> 0]

\* fault: a block left partial by one call is closed at the end of the call
RECURSIVE ascon_xof_absorb_closing(_, _)
ascon_xof_absorb_closing(X, in) ==
  After(X,
  IF Len(in) = 0
  THEN [X EXCEPT !.state = IF X.count = 0 THEN X.state
                           ELSE ascon_permute(X.state, xof_start_round(X.variant)),
                 !.count = 0]
  ELSE LET s1 == XorByte(X.state, X.count, in[1])
       IN  IF X.count + 1 = ASCON_XOF_RATE
           THEN ascon_xof_absorb_closing(
                  [X EXCEPT !.state = ascon_permute(s1, xof_start_round(X.variant)),
                            !.count = 0],
                  Tail(in))
           ELSE ascon_xof_absorb_closing(
                  [X EXCEPT !.state = s1, !.count = X.count + 1], Tail(in)))

\* ascon_xof_absorb, ascon_xofa_absorb on an object in absorb mode: each byte
\* is XORed in at offset count, a full block is permuted
RECURSIVE ascon_xof_absorb(_, _)
ascon_xof_absorb(X, in) ==
  After(X,
  IF Len(in) = 0 THEN X
  ELSE LET s1 == XorByte(X.state, X.count, in[1])
       IN  IF X.count + 1 = ASCON_XOF_RATE
           THEN ascon_xof_absorb(
                  [X EXCEPT !.state = ascon_permute(s1, xof_start_round(X.variant)),
                            !.count = 0],
                  Tail(in))
           ELSE ascon_xof_absorb(
                  [X EXCEPT !.state = s1, !.count = X.count + 1], Tail(in)))

\* the change from absorb to squeeze: the partial block is padded with 0x80
\* and the state permuted with all twelve rounds
xof_finish_absorb(X) ==
  IF X.mode = 1 THEN X
  ELSE [X EXCEPT !.state = ascon_permute(ascon_pad(X.state, X.count), 0),
                 !.count = 0,
                 !.mode = 1]

\* outlen bytes from an object in squeeze mode: r = [X, out]; count is the
\* number of bytes already taken from the current block
RECURSIVE xof_squeeze_bytes(_, _)
xof_squeeze_bytes(r, outlen) ==
  After(r,
  IF outlen = 0 THEN r
  ELSE LET X == IF r.X.count = ASCON_XOF_RATE
                THEN [r.X EXCEPT
                        !.state = ascon_permute(r.X.state,
                                                xof_start_round(r.X.variant)),
                        !.count = 0]
                ELSE r.X
       IN  xof_squeeze_bytes(
             [X |-> [X EXCEPT !.count = X.count + 1],
              out |-> Append(r.out, StateByte(X.state, X.count))],
             outlen - 1))

\* ascon_xof_squeeze, ascon_xofa_squeeze
ascon_xof_squeeze(X, outlen) ==
  xof_squeeze_bytes([X |-> xof_finish_absorb(X), out |-> <<>>], outlen)

\* fault: the partial block is closed with the 0x80 padding byte
ascon_xof_pad_marked(X) ==
  IF X.mode = 1
  THEN [X EXCEPT !.state = ascon_permute(X.state, 0), !.count = 0, !.mode = 0]
  ELSE IF X.count # 0
  THEN [X EXCEPT !.state = ascon_permute(ascon_pad(X.state, X.count),
                                         xof_start_round(X.variant)),
                 !.count = 0]
  ELSE X

\* fault: an object that is squeezing is left as it is
ascon_xof_pad_absorbing_only(X) ==
  IF X.mode = 0 /\ X.count # 0
  THEN [X EXCEPT !.state = ascon_permute(X.state, xof_start_round(X.variant)),
                 !.count = 0]
  ELSE X

\* ascon_xof_pad, ascon_xofa_pad (lines 175-185): zeroes up to the next
\* multiple of the rate, nothing if aligned; an object that was squeezing
\* goes back to absorb mode, aligned (lines 199-200)
ascon_xof_pad(X) ==
  IF X.mode = 1
  THEN [X EXCEPT !.state = ascon_permute(X.state, 0), !.count = 0, !.mode = 0]
  ELSE IF X.count # 0
  THEN [X EXCEPT !.state = ascon_permute(X.state, xof_start_round(X.variant)),
                 !.count = 0]
  ELSE X

\* ascon_xof_clear_rate, ascon_xofa_clear_rate (lines 187-201): pad, zero
\* the rate, permute
ascon_xof_clear_rate(X) ==
  LET P == ascon_xof_pad(X)
  IN  [P EXCEPT !.state =
         ascon_permute(<<{}, P.state[2], P.state[3], P.state[4], P.state[5]>>,
                       xof_start_round(P.variant))]

\* ascon_xof_copy, ascon_xofa_copy: dest after the call
ascon_xof_copy(dest, src) == src

\* ascon_xof, ascon_xofa (lines 79-92): the 32-byte output for input in
ascon_xof(variant, in) ==
  ascon_xof_squeeze(ascon_xof_absorb(ascon_xof_init(variant), in),
                    ASCON_HASH_SIZE).out

(***************************************************************************)
(* Bounds of the model                                                     *)
(***************************************************************************)
\* longest message and longest associated data, in bytes
MaxMLen == 9
MaxAdLen == 9
\* the input patterns: 0 is the pattern of the known-answer tests
\* (00 01 02 ...), the others are odd-stride patterns
Seeds == {0}
Pattern(seed, n, salt) ==
  [i \in 1 .. n |-> ((i - 1) * (2 * seed + 1) + seed * salt) % 256]
\* the bits an adversary flips in a field of len bytes: the lowest bit of
\* its first byte and the highest bit of its last byte
FlipSites(len) == {x \in {<<1, 0>>, <<len, 7>>} : 1 <= x[1] /\ x[1] <= len}
FlipBit(buf, x) == [buf EXCEPT ![x[1]] = xor8(buf[x[1]], Pow2(x[2]))]

\* the operations made on an XOF object after its first init
MaxOps == 3
\* the lengths of the absorb and squeeze calls of such a run
AbsorbLens == {3, 8}
SqueezeLens == {1, 9}
\* byte n (from 0) of everything a run absorbs
XofByte(n) == (n * 37 + 11) % 256
\* the longest input hashed, and the sizes in which its output is taken
MaxInLen == 10
SqueezeChunks == {1, 8, 13, 32}
Variants == {"xof", "xofa"}

\* the masked states and the entropy pools tried: seeds 0 .. Max
MaxStateSeed == 2
MaxPoolSeed == 3
Mix(a, b, c) ==
  (a * 73 + b * 151 + c * 199 + a * b * 7 + b * c * 13 + a * c * 29 + a * b * c) % 257
\* word n of the pattern of a seed
SeedWord(seed, n) == {p \in W32 : Mix(seed + 1, n + 1, p + 1) % 2 = 1}
\* pool 0 is the all-zero pool, pool 1 the all-ones pool
PoolWord(seed, n) ==
  CASE seed = 0 -> {}
    [] seed = 1 -> W32
    [] OTHER -> SeedWord(seed + 7, n + 40)

(***************************************************************************)
(* State                                                                   *)
(***************************************************************************)
VARIABLES
  \* one ascon80pq_siv_encrypt call and one ascon80pq_siv_decrypt call
  m, ad, npub, k,        \* the encrypt call's inputs
  c, clen, encret,       \* its output buffer, *clen and its result
  dc, dad, dnpub, dk,    \* the decrypt call's inputs
  dm, dmlen, decret,     \* its output buffer, *mlen and its result
  state,                 \* the local ascon_state_t of the running call
  block,                 \* the keystream block of ascon_siv_encrypt_8_80pq
  initlog,               \* the (iv, nonce) of every ascon80pq_siv_init call
  keyxor,                \* the state bytes before and after line 116 / 164
  tampered,              \* what was changed between encrypt and decrypt
  pc,                    \* the position of the session
  \* one ascon_x4_permute call
  M,                     \* state->M[0 .. 4].W[0 .. 7]
  preserve,              \* the caller's pool, as six 32-bit words
  x4_first_round,        \* the parameter first_round, counted up by the loop
  x4_rc,                 \* the index in RC the pointer rc is at
  x4_L,                  \* the locals xI_sw and t0_sw
  x4_entry,              \* M, first_round and preserve as they were at entry
  x4_pc,                 \* the position of the call
  \* an XOF object and the calls made on it
  xof,                   \* the object: [variant, state, count, mode]
  xof_prev,              \* the object as it was before the last call
  xof_op,                \* the last call
  xof_n,                 \* the calls made since the first init
  xof_fed,               \* the bytes absorbed so far
  xof_clone,             \* the destination of ascon_xof_copy
  xof_out,               \* the bytes squeezed so far
  hash_in,               \* the input of the one-shot call
  hash_out,              \* the output of the one-shot call
  xof_pc                 \* the position of the run

sivvars == <<m, ad, npub, k, c, clen, encret, dc, dad, dnpub, dk, dm, dmlen,
             decret, state, block, initlog, keyxor, tampered, pc>>
x4vars == <<M, preserve, x4_first_round, x4_rc, x4_L, x4_entry, x4_pc>>
xofvars == <<xof, xof_prev, xof_op, xof_n, xof_fed, xof_clone, xof_out,
             hash_in, hash_out, xof_pc>>
vars == <<sivvars, x4vars, xofvars>>

\* an object that was never initialised: all zero
XofBlank(variant) ==
  [variant |-> variant, state |-> <<{}, {}, {}, {}, {}>>, count |-> 0, mode |-> 0]
\* no XOF object is in use
XofIdle ==
  /\ xof = XofBlank("xof") /\ xof_prev = XofBlank("xof") /\ xof_op = "none"
  /\ xof_n = 0 /\ xof_fed = 0 /\ xof_clone = XofBlank("xof") /\ xof_out = <<>>
  /\ hash_in = <<>> /\ hash_out = <<>> /\ xof_pc = "idle"

\* no ascon_x4_permute call is under way
X4Idle ==
  /\ M = <<>> /\ preserve = <<>> /\ x4_first_round = 0 /\ x4_rc = 0
  /\ x4_L = <<>> /\ x4_entry = <<>> /\ x4_pc = "idle"
\* no SIV session is under way
SivIdle ==
  /\ m = <<>> /\ ad = <<>> /\ npub = <<>> /\ k = <<>> /\ c = <<>> /\ clen = 0
  /\ encret = <<>> /\ dc = <<>> /\ dad = <<>> /\ dnpub = <<>> /\ dk = <<>>
  /\ dm = <<>> /\ dmlen = 0 /\ decret = <<>> /\ state = [form |-> "none"]
  /\ block = <<>> /\ initlog = <<>> /\ keyxor = <<>> /\ tampered = "none"
  /\ pc = "idle"

Internal(s) == [form |-> "internal", S |-> s]
Regular(B) == [form |-> "regular", B |-> B]

SivInit ==
  /\ \E seed \in Seeds, mlen \in 0 .. MaxMLen, adlen \in 0 .. MaxAdLen :
       /\ m = Pattern(seed, mlen, 57)
       /\ ad = Pattern(seed, adlen, 23)
       /\ npub = Pattern(seed, ASCON80PQ_NONCE_SIZE, 171)
       /\ k = Pattern(seed, ASCON80PQ_KEY_SIZE, 89)
       /\ c = Fresh(mlen + ASCON80PQ_TAG_SIZE)
  /\ clen = 0
  /\ encret = <<>>
  /\ dc = <<>> /\ dad = <<>> /\ dnpub = <<>> /\ dk = <<>>
  /\ dm = <<>> /\ dmlen = 0 /\ decret = <<>>
  /\ state = [form |-> "none"]
  /\ block = Fresh(8)
  /\ initlog = <<>>
  /\ keyxor = <<>>
  /\ tampered = "none"
  /\ pc = "start"

(***************************************************************************)
(* ascon80pq_siv_encrypt, in its three phases                              *)
(***************************************************************************)
\* fault: the message is copied to c while it is absorbed
EncAuth_writes_early ==
  /\ pc = "start"
  /\ clen' = siv_encrypt_clen(Len(m))
  /\ state' = Internal(siv_auth_state(npub, k, ad, m))
  /\ c' = Store(c, 0, m)
  /\ initlog' = Append(initlog, [iv |-> ASCON80PQ_IV1, npub |-> npub])
  /\ pc' = "enc_auth"
  /\ UNCHANGED <<x4vars, xofvars>>
  /\ UNCHANGED <<keyxor, m, ad, npub, k, encret, dc, dad, dnpub, dk, dm, dmlen,
                 decret, block, tampered>>

\* lines 99-113: *clen, the authentication-phase state, ad, separator, m
EncAuth ==
  /\ pc = "start"
  /\ clen' = siv_encrypt_clen(Len(m))
  /\ state' = Internal(siv_auth_state(npub, k, ad, m))
  /\ initlog' = Append(initlog, [iv |-> ASCON80PQ_IV1, npub |-> npub])
  /\ pc' = "enc_auth"
  /\ UNCHANGED <<x4vars, xofvars>>
  /\ UNCHANGED <<keyxor, m, ad, npub, k, c, encret, dc, dad, dnpub, dk, dm, dmlen,
                 decret, block, tampered>>

\* lines 115-119: the tag, stored at c + mlen
EncTag ==
  /\ pc = "enc_auth"
  /\ \E s \in {siv_tag_state(state.S, k)} :
       /\ state' = Internal(s)
       /\ c' = Store(c, Len(m), ascon_squeeze_16(s, 24))
  /\ keyxor' = [before |-> ascon_to_regular(state.S),
                after |-> ascon_to_regular(siv_tag_key_xor(state.S, k)),
                key |-> k]
  /\ pc' = "enc_tag"
  /\ UNCHANGED <<x4vars, xofvars>>
  /\ UNCHANGED <<m, ad, npub, k, clen, encret, dc, dad, dnpub, dk, dm, dmlen,
                 decret, block, initlog, tampered>>

\* lines 121-126: the encryption-phase state from the tag, the ciphertext
EncStream ==
  /\ pc = "enc_tag"
  /\ \E nonce \in {siv_encrypt_nonce(c, Len(m))} :
     \E r \in {ascon_siv_encrypt_8_80pq(
                 ascon80pq_siv_init(nonce, k, ASCON80PQ_IV2), m, 6)} :
       /\ state' = Internal(r.state)
       /\ block' = r.block
       /\ c' = Store(c, 0, r.dest)
       /\ initlog' = Append(initlog, [iv |-> ASCON80PQ_IV2, npub |-> nonce])
  /\ encret' = <<0>>
  /\ pc' = "enc_done"
  /\ UNCHANGED <<x4vars, xofvars>>
  /\ UNCHANGED <<keyxor, m, ad, npub, k, clen, dc, dad, dnpub, dk, dm, dmlen, decret,
                 tampered>>

(***************************************************************************)
(* What reaches the decrypting side                                        *)
(***************************************************************************)
Present(cc, aa, nn, kk, what) ==
  /\ pc = "enc_done"
  /\ dc' = cc /\ dad' = aa /\ dnpub' = nn /\ dk' = kk
  /\ dm' = Fresh(IF Len(cc) > ASCON80PQ_TAG_SIZE
                 THEN Len(cc) - ASCON80PQ_TAG_SIZE ELSE 0)
  /\ tampered' = what
  /\ initlog' = <<>>
  /\ pc' = "dec_call"
  /\ UNCHANGED <<x4vars, xofvars>>
  /\ UNCHANGED <<keyxor, m, ad, npub, k, c, clen, encret, dmlen, decret, state, block>>

\* the ciphertext arrives as it was produced
Deliver == Present(c, ad, npub, k, "none")

\* one bit of the ciphertext body, the tag, the associated data, the nonce
\* or the key is flipped on the way
TamperBody ==
  \E x \in FlipSites(Len(m)) :
    Present(FlipBit(c, x), ad, npub, k, "body")
TamperTag ==
  \E x \in FlipSites(ASCON80PQ_TAG_SIZE) :
    Present(FlipBit(c, <<Len(m) + x[1], x[2]>>), ad, npub, k, "tag")
TamperAd ==
  \E x \in FlipSites(Len(ad)) :
    Present(c, FlipBit(ad, x), npub, k, "ad")
TamperNonce ==
  \E x \in FlipSites(ASCON80PQ_NONCE_SIZE) :
    Present(c, ad, FlipBit(npub, x), k, "npub")
TamperKey ==
  \E x \in FlipSites(ASCON80PQ_KEY_SIZE) :
    Present(c, ad, npub, FlipBit(k, x), "k")

\* fewer than ASCON80PQ_TAG_SIZE bytes arrive
Truncate ==
  \E n \in 0 .. (ASCON80PQ_TAG_SIZE - 1) :
    Present(SubSeq(c, 1, n), ad, npub, k, "short")

(***************************************************************************)
(* ascon80pq_siv_decrypt                                                   *)
(***************************************************************************)
\* fault: a ciphertext shorter than the tag is accepted as empty
DecShort_accepts ==
  /\ pc = "dec_call"
  /\ Len(dc) < ASCON80PQ_TAG_SIZE
  /\ decret' = <<0>>
  /\ pc' = "dec_done"
  /\ UNCHANGED <<x4vars, xofvars>>
  /\ UNCHANGED <<keyxor, m, ad, npub, k, c, clen, encret, dc, dad, dnpub, dk, dm,
                 dmlen, state, block, initlog, tampered>>

\* lines 138-140: a ciphertext shorter than the tag
DecShort ==
  /\ pc = "dec_call"
  /\ Len(dc) < ASCON80PQ_TAG_SIZE
  /\ decret' = <<-1>>
  /\ pc' = "dec_done"
  /\ UNCHANGED <<x4vars, xofvars>>
  /\ UNCHANGED <<keyxor, m, ad, npub, k, c, clen, encret, dc, dad, dnpub, dk, dm,
                 dmlen, state, block, initlog, tampered>>

\* lines 141-148: *mlen, the encryption-phase state from the received tag,
\* the plaintext written to m
DecStream ==
  /\ pc = "dec_call"
  /\ ~(Len(dc) < ASCON80PQ_TAG_SIZE)
  /\ \E n \in {Len(dc) - ASCON80PQ_TAG_SIZE} :
     \E nonce \in {siv_decrypt_nonce(dc, n, dnpub)} :
     \E r \in {ascon_siv_encrypt_8_80pq(
                 ascon80pq_siv_init(nonce, dk, ASCON80PQ_IV2),
                 SubSeq(dc, 1, n), 6)} :
       /\ dmlen' = n
       /\ state' = Internal(r.state)
       /\ block' = r.block
       /\ dm' = Store(dm, 0, r.dest)
       /\ initlog' = Append(initlog, [iv |-> ASCON80PQ_IV2, npub |-> nonce])
  /\ pc' = "dec_stream"
  /\ UNCHANGED <<x4vars, xofvars>>
  /\ UNCHANGED <<keyxor, m, ad, npub, k, c, clen, encret, dc, dad, dnpub, dk, decret,
                 tampered>>

\* lines 150-161: the authentication-phase state, ad, separator, plaintext
DecAuth ==
  /\ pc = "dec_stream"
  /\ state' = Internal(siv_auth_state(dnpub, dk, dad,
                                       SubSeq(dm, 1, Len(dc) - ASCON80PQ_TAG_SIZE)))
  /\ initlog' = Append(initlog, [iv |-> ASCON80PQ_IV1, npub |-> dnpub])
  /\ pc' = "dec_auth"
  /\ UNCHANGED <<x4vars, xofvars>>
  /\ UNCHANGED <<keyxor, m, ad, npub, k, c, clen, encret, dc, dad, dnpub, dk, dm,
                 dmlen, decret, block, tampered>>

\* lines 163-169: the tag recomputed, compared, the plaintext kept or zeroed
DecCheck ==
  /\ pc = "dec_auth"
  /\ \E n \in {Len(dc) - ASCON80PQ_TAG_SIZE} :
     \E B \in {ascon_to_regular(siv_tag_state(state.S, dk))} :
     \E r \in {siv_decrypt_check(dm, n, B, dc)} :
       /\ state' = Regular(B)
       /\ dm' = r.m
       /\ decret' = <<r.ret>>
  /\ keyxor' = [before |-> ascon_to_regular(state.S),
                after |-> ascon_to_regular(siv_tag_key_xor(state.S, dk)),
                key |-> dk]
  /\ pc' = "dec_done"
  /\ UNCHANGED <<x4vars, xofvars>>
  /\ UNCHANGED <<m, ad, npub, k, c, clen, encret, dc, dad, dnpub, dk, dmlen,
                 block, initlog, tampered>>

SivNext ==
  \/ EncAuth \/ EncTag \/ EncStream
  \/ Deliver \/ TamperBody \/ TamperTag \/ TamperAd \/ TamperNonce
  \/ TamperKey \/ Truncate
  \/ DecShort \/ DecStream \/ DecAuth \/ DecCheck

(***************************************************************************)
(* ascon_x4_permute (src/src/utility/ascon-x4-c32.c, lines 94-376)         *)
(***************************************************************************)
X4Init ==
  /\ \E sseed \in 0 .. MaxStateSeed, pseed \in 0 .. MaxPoolSeed, fr \in 0 .. 12 :
       /\ M = [i \in 0 .. 4 |-> [j \in 0 .. 7 |-> SeedWord(sseed, 8 * i + j)]]
       /\ preserve = [j \in 0 .. 5 |-> PoolWord(pseed, j)]
       /\ x4_first_round = fr
  /\ x4_entry = [M |-> M, first_round |-> x4_first_round, preserve |-> preserve]
  /\ x4_rc = 0
  /\ x4_L = <<>>
  /\ x4_pc = "call"

\* lines 111-177: rc, the randomness, the state, x2 of the first share inverted
X4Load ==
  /\ x4_pc = "call"
  /\ x4_rc' = x4_first_round * 2
  /\ x4_L' =
       [x |-> [i \in 0 .. 4 |->
                 [w \in {"e", "o"} |->
                    [s \in 0 .. 3 |->
                       LET v == M[i][2 * s + (IF w = "e" THEN 0 ELSE 1)]
                       IN  IF i = 2 /\ s = 0 THEN NotW(32, v) ELSE v]]],
        t0 |-> [w \in {"e", "o"} |->
                  [s \in 0 .. 2 |-> preserve[2 * s + (IF w = "e" THEN 0 ELSE 1)]]]]
  /\ x4_pc' = "loop"
  /\ UNCHANGED <<M, preserve, x4_first_round, x4_entry>>
  /\ UNCHANGED <<sivvars, xofvars>>

\* lines 180-325: one pass of while (first_round++ < 12)
X4Round ==
  /\ x4_pc = "loop"
  /\ x4_first_round < 12
  /\ x4_first_round' = x4_first_round + 1
  /\ x4_L' = x4_round(x4_L, x4_rc)
  /\ x4_rc' = x4_rc + 2
  /\ UNCHANGED <<M, preserve, x4_entry, x4_pc>>
  /\ UNCHANGED <<sivvars, xofvars>>

\* fault: x2 of the first share is stored as the loop left it, inverted
X4Store_no_invert ==
  /\ x4_pc = "loop"
  /\ ~(x4_first_round < 12)
  /\ x4_first_round' = (x4_first_round + 1) % 256
  /\ preserve' = [j \in 0 .. 5 |->
                    x4_L.t0[IF j % 2 = 0 THEN "e" ELSE "o"][j \div 2]]
  /\ M' = [i \in 0 .. 4 |->
             [j \in 0 .. 7 |->
                x4_L.x[i][IF j % 2 = 0 THEN "e" ELSE "o"][j \div 2]]]
  /\ x4_pc' = "done"
  /\ UNCHANGED <<x4_rc, x4_L, x4_entry>>
  /\ UNCHANGED <<sivvars, xofvars>>

\* lines 180, 327-375: the loop ends, the randomness and the state are stored
X4Store ==
  /\ x4_pc = "loop"
  /\ ~(x4_first_round < 12)
  /\ x4_first_round' = (x4_first_round + 1) % 256
  /\ preserve' = [j \in 0 .. 5 |->
                    x4_L.t0[IF j % 2 = 0 THEN "e" ELSE "o"][j \div 2]]
  /\ M' = [i \in 0 .. 4 |->
             [j \in 0 .. 7 |->
                LET v == x4_L.x[i][IF j % 2 = 0 THEN "e" ELSE "o"][j \div 2]
                IN  IF i = 2 /\ j \in {0, 1} THEN NotW(32, v) ELSE v]]
  /\ x4_pc' = "done"
  /\ UNCHANGED <<x4_rc, x4_L, x4_entry>>
  /\ UNCHANGED <<sivvars, xofvars>>

X4Next == X4Load \/ X4Round \/ X4Store

(***************************************************************************)
(* Calls on an XOF object, in any order                                    *)
(***************************************************************************)
XofInit ==
  /\ \E v \in Variants :
       /\ xof = ascon_xof_init(v)
       /\ xof_prev = XofBlank(v)
       /\ xof_clone = XofBlank(v)
  /\ xof_op = "init"
  /\ xof_n = 0 /\ xof_fed = 0 /\ xof_out = <<>>
  /\ hash_in = <<>> /\ hash_out = <<>>
  /\ xof_pc = "ops"

\* a call: the object becomes X, the ghost variables record the call
XofCall(op, X) ==
  /\ xof_pc = "ops"
  /\ xof_n < MaxOps
  /\ xof_n' = xof_n + 1
  /\ xof_prev' = xof
  /\ xof' = X
  /\ xof_op' = op
  /\ UNCHANGED <<hash_in, hash_out, xof_pc>>
  /\ UNCHANGED <<sivvars, x4vars>>

\* ascon_xof_reinit: free, then init
XofReinit ==
  /\ XofCall("init", ascon_xof_init(xof.variant))
  /\ xof_fed' = 0 /\ xof_out' = <<>>
  /\ UNCHANGED xof_clone

\* ascon_xof_absorb; the specification makes absorbing after squeezing a
\* misuse by the caller, and no such call is made
XofAbsorb ==
  /\ xof.mode = 0
  /\ \E n \in AbsorbLens :
       /\ XofCall("absorb",
                  ascon_xof_absorb(xof, [i \in 1 .. n |-> XofByte(xof_fed + i - 1)]))
       /\ xof_fed' = xof_fed + n
  /\ UNCHANGED <<xof_clone, xof_out>>

XofSqueeze ==
  \E n \in SqueezeLens :
  \E r \in {ascon_xof_squeeze(xof, n)} :
    /\ XofCall("squeeze", r.X)
    /\ xof_out' = xof_out \o r.out
    /\ UNCHANGED <<xof_clone, xof_fed>>

XofPad ==
  /\ XofCall("pad", ascon_xof_pad(xof))
  /\ UNCHANGED <<xof_clone, xof_fed, xof_out>>

XofClearRate ==
  /\ XofCall("clear_rate", ascon_xof_clear_rate(xof))
  /\ UNCHANGED <<xof_clone, xof_fed, xof_out>>

\* ascon_xof_copy(&clone, &xof)
XofCopy ==
  /\ XofCall("copy", xof)
  /\ xof_clone' = ascon_xof_copy(xof_clone, xof)
  /\ UNCHANGED <<xof_fed, xof_out>>

XofNext ==
  XofReinit \/ XofAbsorb \/ XofSqueeze \/ XofPad \/ XofClearRate \/ XofCopy

(***************************************************************************)
(* One input hashed by the one-shot call and, in pieces, by the            *)
(* incremental calls                                                       *)
(***************************************************************************)
HashInit ==
  /\ \E v \in Variants, n \in 0 .. MaxInLen :
       /\ xof = XofBlank(v)
       /\ xof_prev = XofBlank(v)
       /\ xof_clone = XofBlank(v)
       /\ hash_in = [i \in 1 .. n |-> XofByte(i - 1)]
  /\ xof_op = "none"
  /\ xof_n = 0 /\ xof_fed = 0 /\ xof_out = <<>>
  /\ hash_out = <<>>
  /\ xof_pc = "oneshot"

\* ascon_xof(out, in, inlen)
HashOneShot ==
  /\ xof_pc = "oneshot"
  /\ hash_out' = ascon_xof(xof.variant, hash_in)
  /\ xof_pc' = "init"
  /\ UNCHANGED <<xof, xof_prev, xof_op, xof_n, xof_fed, xof_clone, xof_out, hash_in>>
  /\ UNCHANGED <<sivvars, x4vars>>

\* ascon_xof_init(&state)
HashStart ==
  /\ xof_pc = "init"
  /\ xof' = ascon_xof_init(xof.variant)
  /\ xof_op' = "init"
  /\ xof_pc' = "absorb"
  /\ UNCHANGED <<xof_prev, xof_n, xof_fed, xof_clone, xof_out, hash_in, hash_out>>
  /\ UNCHANGED <<sivvars, x4vars>>

\* ascon_xof_absorb(&state, in + fed, n), for any split of what is left
HashAbsorb ==
  /\ xof_pc = "absorb"
  /\ \E n \in 0 .. (Len(hash_in) - xof_fed) :
       /\ xof' = ascon_xof_absorb(xof, SubSeq(hash_in, xof_fed + 1, xof_fed + n))
       /\ xof_fed' = xof_fed + n
       \* xof_n: no absorb call with data yet, one, or several
       /\ xof_n' = IF n > 0 /\ xof_n < 2 THEN xof_n + 1 ELSE xof_n
  /\ xof_prev' = xof
  /\ xof_op' = "absorb"
  /\ UNCHANGED <<xof_clone, xof_out, hash_in, hash_out, xof_pc>>
  /\ UNCHANGED <<sivvars, x4vars>>

\* ascon_xof_squeeze(&state, out + taken, n) once the input is in
HashSqueeze ==
  /\ xof_pc \in {"absorb", "squeeze"}
  /\ xof_fed = Len(hash_in)
  /\ \E n \in SqueezeChunks :
       /\ Len(xof_out) + n <= ASCON_HASH_SIZE
       /\ \E r \in {ascon_xof_squeeze(xof, n)} :
            /\ xof' = r.X
            /\ xof_out' = xof_out \o r.out
            /\ xof_pc' = IF Len(xof_out) + n = ASCON_HASH_SIZE
                         THEN "done" ELSE "squeeze"
  /\ xof_prev' = xof
  /\ xof_op' = "squeeze"
  /\ UNCHANGED <<xof_n, xof_fed, xof_clone, hash_in, hash_out>>
  /\ UNCHANGED <<sivvars, x4vars>>

HashNext == HashOneShot \/ HashStart \/ HashAbsorb \/ HashSqueeze

(***************************************************************************)
(* Specifications                                                          *)
(***************************************************************************)
\* an encrypt call followed by a decrypt call of ASCON-80pq-SIV
Init == SivInit /\ X4Idle /\ XofIdle
Next == SivNext
Spec == Init /\ [][Next]_vars

\* one call of the masked permutation
InitX4 == X4Init /\ SivIdle /\ XofIdle
SpecX4 == InitX4 /\ [][X4Next]_vars

\* calls on an XOF object
InitXof == XofInit /\ SivIdle /\ X4Idle
SpecXof == InitXof /\ [][XofNext]_vars

\* one input through ascon_xof and through the incremental calls
InitXofHash == HashInit /\ SivIdle /\ X4Idle
SpecXofHash == InitXofHash /\ [][HashNext]_vars


(***************************************************************************)
(* Properties of ASCON-80pq-SIV                                            *)
(***************************************************************************)
\* C1: decrypting what encrypt produced, with the same ad, nonce and key,
\* succeeds, returns exactly m and sets *mlen to the length of m
C1_RoundTrip ==
  (pc = "dec_done" /\ tampered = "none")
    => (decret = <<0>> /\ dm = m /\ dmlen = Len(m))
\* a round trip of a message and associated data that end in a partial block
C1_Witness ==
  /\ pc = "dec_done" /\ tampered = "none"
  /\ Len(m) % 8 # 0 /\ Len(ad) % 8 # 0
  /\ decret = <<0>> /\ dm = m

\* C2: the plaintext is written into m before the tag is checked, and when
\* the recomputed tag differs from the received one decrypt returns -1 with
\* every byte of m[0 .. clen-16) zero
C2_MismatchZeroes ==
  /\ (pc \in {"dec_stream", "dec_auth"}) => (\A i \in 1 .. dmlen : dm[i] \in Byte)
  /\ (/\ pc = "dec_done"
      /\ state.form = "regular"
      /\ Slice(state.B, 24, ASCON80PQ_TAG_SIZE)
           # Slice(dc, Len(dc) - ASCON80PQ_TAG_SIZE, ASCON80PQ_TAG_SIZE))
       => (/\ decret = <<-1>>
           /\ \A i \in 1 .. (Len(dc) - ASCON80PQ_TAG_SIZE) : dm[i] = 0)
\* a rejected call whose recovered plaintext was the non-zero message m
C2_Witness ==
  /\ pc = "dec_done" /\ tampered = "npub"
  /\ Len(m) > 8 /\ m # Zeros(Len(m))
  /\ decret = <<-1>> /\ dm = Zeros(Len(m))

\* C3: one flipped bit in the ciphertext body, the tag, the associated data,
\* the nonce or the key makes decrypt return -1
C3_TamperDetected ==
  (pc = "dec_done" /\ tampered \in {"body", "tag", "ad", "npub", "k"})
    => (decret = <<-1>>)
\* associated data that differ from the ones encrypted are rejected
C3_Witness ==
  pc = "dec_done" /\ tampered = "ad" /\ dad # ad /\ dc = c /\ decret = <<-1>>

\* C4: when ascon_x4_permute returns, the unshared state is the permutation
\* (rounds first_round .. 11) of the unshared state at entry, whatever the
\* shares and whatever the pool held
C4_MaskedPermute ==
  (x4_pc = "done")
    => (Unshare(M) = ascon_permute(Unshare(x4_entry.M), x4_entry.first_round))
\* a full 12-round call with entropy in the pool
C4_Witness ==
  /\ x4_pc = "done" /\ x4_entry.first_round = 0
  /\ x4_entry.preserve[0] # {} /\ x4_entry.preserve[0] # W32
  /\ Unshare(M) # Unshare(x4_entry.M)
  /\ preserve # x4_entry.preserve

\* C5: encrypt returns 0 with *clen = mlen + 16, the tag at c[mlen .. mlen+16)
\* and the message XOR the keystream at c[0 .. mlen)
C5_EncryptLayout ==
  (pc = "enc_done")
    => LET tag == ascon_squeeze_16(
                    siv_tag_state(siv_auth_state(npub, k, ad, m), k), 24)
           body == ascon_siv_encrypt_8_80pq(
                     ascon80pq_siv_init(tag, k, ASCON80PQ_IV2), m, 6).dest
       IN  /\ encret = <<0>>
           /\ clen = Len(m) + 16
           /\ Len(c) = clen
           /\ \A i \in 1 .. clen : c[i] \in Byte
           /\ Slice(c, Len(m), 16) = tag
           /\ Slice(c, 0, Len(m)) = body
\* an empty message: the output is the tag alone
C5_Witness ==
  pc = "enc_done" /\ Len(m) = 0 /\ clen = 16 /\ encret = <<0>>
    /\ \A i \in 1 .. 16 : c[i] \in Byte

\* C6: encrypt initialises with IV1 from npub and then with IV2 from the 16
\* bytes it emitted as the tag; decrypt initialises with IV2 from the received
\* tag bytes and uses npub with IV1 only
C6_SivInvariant ==
  /\ (pc = "enc_done")
       => initlog = << [iv |-> ASCON80PQ_IV1, npub |-> npub],
                       [iv |-> ASCON80PQ_IV2,
                        npub |-> Slice(c, Len(m), ASCON80PQ_TAG_SIZE)] >>
  /\ (pc \in {"dec_stream", "dec_auth", "dec_done"} /\ Len(dc) >= ASCON80PQ_TAG_SIZE)
       => initlog[1] = [iv |-> ASCON80PQ_IV2,
                        npub |-> Slice(dc, Len(dc) - ASCON80PQ_TAG_SIZE,
                                       ASCON80PQ_TAG_SIZE)]
  /\ (pc \in {"dec_auth", "dec_done"} /\ Len(dc) >= ASCON80PQ_TAG_SIZE)
       => (Len(initlog) = 2
           /\ initlog[2] = [iv |-> ASCON80PQ_IV1, npub |-> dnpub])
\* a finished decrypt whose keystream nonce was not the caller's nonce
C6_Witness ==
  /\ pc = "dec_done" /\ Len(initlog) = 2
  /\ initlog[1].iv = ASCON80PQ_IV2 /\ initlog[1].npub # dnpub

\* C7: decrypt returns -1 whenever clen < 16
C7_ShortCiphertext ==
  (pc = "dec_done" /\ Len(dc) < ASCON80PQ_TAG_SIZE) => (decret = <<-1>>)
\* a ciphertext one byte short of a tag
C7_Witness ==
  pc = "dec_done" /\ Len(dc) = ASCON80PQ_TAG_SIZE - 1 /\ decret = <<-1>>


C9_OneShotIsIncremental ==
  /\ (xof_pc \in {"squeeze", "done"})
       => (xof_out = SubSeq(hash_out, 1, Len(xof_out)))
  /\ (xof_pc = "done") => (Len(xof_out) = ASCON_HASH_SIZE /\ xof_out = hash_out)
\* XOFA output taken in several calls after an input of more than one block
\* given in several calls
C9_Witness ==
  /\ xof_pc = "done" /\ xof.variant = "xofa"
  /\ Len(hash_in) > ASCON_XOF_RATE /\ xof_n = 2 /\ xof_prev.mode = 1
  /\ xof_out = hash_out /\ Len(hash_out) = ASCON_HASH_SIZE

\* C10: ascon_xof_pad on an object in absorb mode changes nothing when
\* count = 0 and otherwise leaves what absorbing 8 - count zero bytes
\* leaves, count = 0 included
C10_PadIsZeroFill ==
  (xof_op = "pad" /\ xof_prev.mode = 0)
    => /\ xof.count = 0
       /\ xof = IF xof_prev.count = 0 THEN xof_prev
                ELSE ascon_xof_absorb(xof_prev,
                                      Zeros(ASCON_XOF_RATE - xof_prev.count))
\* a pad that closed a block holding three bytes
C10_Witness ==
  /\ xof_op = "pad" /\ xof_prev.mode = 0 /\ xof_prev.count = 3
  /\ xof.count = 0 /\ xof.state # xof_prev.state

(***************************************************************************)
(* Secret hygiene of the SIV calls                                         *)
(***************************************************************************)
\* the local ascon_state_t holds zero in every byte
state_is_zero ==
  \/ state.form = "internal" /\ state.S = <<{}, {}, {}, {}, {}>>
  \/ state.form = "regular" /\ state.B = Zeros(40)
\* the scratch block holds zero in every byte it was given
block_is_zero == \A i \in 1 .. 8 : block[i] \in {0, Unwritten}

\* C11: when ascon80pq_siv_encrypt or ascon80pq_siv_decrypt has returned
\* from a call that built a permutation state, that state and the 8-byte
\* keystream block are zero
C11_ZeroedOnReturn ==
  (pc = "enc_done" \/ (pc = "dec_done" /\ tampered # "short"))
    => (state_is_zero /\ block_is_zero)

(***************************************************************************)
(* The key XOR of the tag derivation                                       *)
(***************************************************************************)
\* C12 as stated: the key XOR before the last permutation changes state
\* bytes [8..16) by key bytes [0..8) and no other byte
C12_KeyXorIs8Bytes ==
  (keyxor # <<>>)
    => \A j \in 1 .. 40 :
         keyxor.after[j] =
           IF j > 8 /\ j <= 16 THEN xor8(keyxor.before[j], keyxor.key[j - 8])
           ELSE keyxor.before[j]
\* C12 as amended: it changes state bytes [8..28) by key bytes [0..20), the
\* whole key, and no other byte
C12_KeyXorIsWholeKey ==
  (keyxor # <<>>)
    => \A j \in 1 .. 40 :
         keyxor.after[j] =
           IF j > 8 /\ j <= 8 + ASCON80PQ_KEY_SIZE
           THEN xor8(keyxor.before[j], keyxor.key[j - 8])
           ELSE keyxor.before[j]
\* a decrypt call has derived its tag, its state changed beyond byte 16
C12_Witness ==
  /\ pc = "dec_done" /\ keyxor # <<>> /\ keyxor.key = dk
  /\ \E j \in 17 .. 28 : keyxor.after[j] # keyxor.before[j]
  /\ \A j \in 1 .. 8 : keyxor.after[j] = keyxor.before[j]

(***************************************************************************)
(* The order of the phases of ascon80pq_siv_encrypt                        *)
(***************************************************************************)
\* the part of the buffer c that holds the ciphertext body, and the tag
c_body(buf) == SubSeq(buf, 1, Len(m))
c_tag(buf) == SubSeq(buf, Len(m) + 1, Len(m) + ASCON80PQ_TAG_SIZE)
\* what each phase of the encrypt call has left
C13_Phase ==
  /\ (pc \in {"start", "enc_auth"}) => (c = Fresh(Len(m) + ASCON80PQ_TAG_SIZE))
  /\ (pc = "enc_auth") => (state = Internal(siv_auth_state(npub, k, ad, m)))
  /\ (pc = "enc_tag")
       => /\ c_body(c) = Fresh(Len(m))
          /\ c_tag(c) = ascon_squeeze_16(
                          siv_tag_state(siv_auth_state(npub, k, ad, m), k), 24)
\* a step of the encrypt call: the phases follow one another, and a step
\* that writes the body of c starts with the tag stored and keeps it
C13_Step ==
  /\ (pc = "start") => (pc' = "enc_auth")
  /\ (pc = "enc_auth") => (pc' = "enc_tag")
  /\ (pc = "enc_tag") => (pc' = "enc_done")
  /\ (c_body(c') # c_body(c))
       => /\ pc = "enc_tag"
          /\ \A i \in 1 .. ASCON80PQ_TAG_SIZE : c_tag(c)[i] # Unwritten
          /\ c_tag(c') = c_tag(c)
\* C13: in ascon80pq_siv_encrypt the phases occur in the order
\* authentication, tag derivation, encryption, and no byte of c[0..mlen) is
\* written before the associated data and all of m are absorbed and the tag
\* derived from them is stored at c[mlen..mlen+16)
C13_TagBeforeCiphertext == []C13_Phase /\ [][C13_Step]_vars
\* the tag of a message of more than one block, with associated data, is
\* stored and the body of c is still untouched
C13_Witness ==
  /\ pc = "enc_tag" /\ Len(m) > 8 /\ Len(ad) > 0
  /\ c_body(c) = Fresh(Len(m))
  /\ \A i \in 1 .. ASCON80PQ_TAG_SIZE : c_tag(c)[i] # Unwritten

(***************************************************************************)
(* The keystream of ascon_siv_encrypt_8_80pq                               *)
(***************************************************************************)
\* s after n permutations with first_round = 6
RECURSIVE ofb_state(_, _)
ofb_state(s, n) ==
  After(s, IF n = 0 THEN s ELSE ofb_state(ascon_permute(s, 6), n - 1))
\* the rate bytes after 1, 2, .., n permutations of s, one after the other
RECURSIVE ofb_keystream(_, _)
ofb_keystream(s, n) ==
  After(s,
  IF n = 0 THEN <<>>
  ELSE LET s1 == ascon_permute(s, 6)
       IN  ascon_squeeze_8(s1, 0) \o ofb_keystream(s1, n - 1))
\* ceil(len / 8)
ofb_blocks(len) == (len + 7) \div 8
\* the call that began in state s0 with len bytes of src has left dest, the
\* state and the scratch block as the keystream of s0 alone determines them
ofb_result(s0, src, len, dest) ==
  LET n == ofb_blocks(len)
      ks == ofb_keystream(s0, n)
  IN  /\ state = Internal(ofb_state(s0, n))
      /\ \A i \in 1 .. len : dest[i] = xor8(src[i], ks[i])
      /\ block = IF n = 0 THEN Fresh(8) ELSE SubSeq(ks, 8 * n - 7, 8 * n)

\* C14: ascon_siv_encrypt_8_80pq runs ceil(len / 8) permutations with
\* first_round = 6 on a state that src and dest never enter, block i of the
\* keystream is the rate after i + 1 of them, a last partial block uses the
\* first len mod 8 bytes of its keystream block, the keystream of a decrypt
\* call is that of the encrypt call, and the second application restores
\* the input
C14_OfbKeystream ==
  /\ (pc = "enc_done")
       => ofb_result(ascon80pq_siv_init(c_tag(c), k, ASCON80PQ_IV2),
                     m, Len(m), c)
  /\ (pc = "dec_stream")
       => /\ ofb_result(ascon80pq_siv_init(
                          Slice(dc, dmlen, ASCON80PQ_NONCE_SIZE), dk,
                          ASCON80PQ_IV2),
                        dc, dmlen, dm)
          /\ (tampered \in {"none", "body"})
               => state = Internal(ofb_state(
                            ascon80pq_siv_init(c_tag(c), k, ASCON80PQ_IV2),
                            ofb_blocks(Len(m))))
          /\ (tampered = "none") => (dm = m)
\* a decrypt call has run the keystream over a body of two blocks, the last
\* one partial, that differs from the body the encrypt call produced
C14_Witness ==
  /\ pc = "dec_stream" /\ tampered = "body"
  /\ dmlen > 8 /\ dmlen % 8 # 0
  /\ dm # m /\ block # Fresh(8)

(***************************************************************************)
(* The round constants of ascon_x4_permute                                 *)
(***************************************************************************)
\* rounds from .. to - 1 of the reference permutation
RECURSIVE ascon_rounds(_, _, _)
ascon_rounds(s, from, to) ==
  After(s, IF from >= to THEN s
           ELSE ascon_rounds(ascon_round(s, from), from + 1, to))
\* the locals xI_sw laid out as state->M[I].W[0 .. 7]
x4_locals_M(L) ==
  [i \in 0 .. 4 |->
     [j \in 0 .. 7 |-> L.x[i][IF j % 2 = 0 THEN "e" ELSE "o"][j \div 2]]]
\* the state the locals stand for: the first share of x2 is kept inverted
x4_locals_value(L) ==
  LET U == Unshare(x4_locals_M(L))
  IN  <<U[1], U[2], NotW(64, U[3]), U[4], U[5]>>

\* C15: the pair RC[2r], RC[2r + 1] that round r reads is the complement of
\* the even and the odd bits of the constant 0xf0, 0xe1, .., 0x4b of round
\* r, the locals between two rounds stand for the reference state after the
\* rounds made so far (so each round has XORed its constant into X2), and
\* the X2 that is stored is the true value, not its complement
C15_RoundConstants ==
  /\ (x4_pc = "loop" /\ x4_first_round < 12)
       => /\ x4_rc = 2 * x4_first_round
          /\ Interleave(NotW(32, RC[x4_rc]), NotW(32, RC[x4_rc + 1]))
               = ByteBits(RoundConstants[x4_first_round + 1])
  /\ (x4_pc = "loop")
       => x4_locals_value(x4_L)
            = ascon_rounds(Unshare(x4_entry.M), x4_entry.first_round,
                           x4_first_round)
  /\ (x4_pc = "done")
       => Unshare(M)[3]
            = ascon_permute(Unshare(x4_entry.M), x4_entry.first_round)[3]
\* eleven rounds of a full call are made, the last constant is to be read
C15_Witness ==
  /\ x4_pc = "loop" /\ x4_entry.first_round = 0 /\ x4_first_round = 11
  /\ x4_rc = 22 /\ x4_entry.preserve[0] # {}

(***************************************************************************)
(* The number of rounds of ascon_x4_permute                                *)
(***************************************************************************)
\* the rounds made so far: rc moves on by one pair in each
x4_rounds_made == (x4_rc - 2 * x4_entry.first_round) \div 2

\* C16: a call with first_round = 12 makes no round, reads no constant and
\* stores the 40 share words and the 6 pool words it loaded; every call
\* makes 12 - first_round rounds
C16_ZeroRounds ==
  /\ (x4_pc = "done" /\ x4_entry.first_round = 12)
       => /\ M = x4_entry.M
          /\ preserve = x4_entry.preserve
          /\ x4_rounds_made = 0
  /\ (x4_pc = "loop")
       => /\ x4_entry.first_round <= x4_first_round /\ x4_first_round <= 12
          /\ x4_rounds_made = x4_first_round - x4_entry.first_round
  /\ (x4_pc = "done") => (x4_rounds_made = 12 - x4_entry.first_round)
\* a call with first_round = 12 on a state and a pool that are not zero has
\* returned
C16_Witness ==
  /\ x4_pc = "done" /\ x4_entry.first_round = 12
  /\ x4_entry.M[2][0] # {} /\ x4_entry.preserve[0] # {}
  /\ M = x4_entry.M

(***************************************************************************)
(* The randomness t0 of ascon_x4_permute                                   *)
(***************************************************************************)
\* the value of the four shares sh[0 .. 3] of one half
unshare_half(sh) == Unshare32(sh[0], sh[1], sh[2], sh[3])
\* the round that starts from the locals L, on the half w whose inverted
\* round constant is rcw: the four shares of t0 stand for zero at Chi5, t0
\* after Chi5 stands for (~x0) & x1, and x4 ^= t0 adds just that to the
\* value of x4 (x0 and x4 as the start of the substitution layer left them)
reshare_half(L, w, rcw) ==
  LET X == x4_half(L, w)
      S == x4_sbox(X, L.t0[w], rcw)
      x0 == X32(unshare_half(X[0]), unshare_half(X[4]))
      x1 == unshare_half(X[1])
      x4 == X32(unshare_half(X[4]), unshare_half(X[3]))
      chi == AndW(32, NotW(32, x0), x1)
  IN  /\ unshare_half(x4_t0(L.t0[w])) = {}
      /\ unshare_half(and_not_xor(x4_t0(L.t0[w]),
                                  xor_shares(X[0], X[4]), X[1])) = chi
      /\ unshare_half(S.x[4]) = X32(x4, chi)

\* C17: in every round, for the even and for the odd half, the fourth
\* share of t0 is made from the three carried ones so that t0 stands for
\* zero when Chi5 starts, and folding t0 into x4 changes the value of x4 by
\* (~x0) & x1 whatever the carried shares are
C17_Reshare ==
  (x4_pc = "loop" /\ x4_first_round < 12)
    => /\ reshare_half(x4_L, "e", RC[x4_rc])
       /\ reshare_half(x4_L, "o", RC[x4_rc + 1])
\* a round starts with randomness that the round before has rotated
C17_Witness ==
  /\ x4_pc = "loop" /\ x4_first_round < 12
  /\ x4_first_round > x4_entry.first_round
  /\ x4_L.t0.e[0] # {} /\ x4_L.t0.o[2] # {}
  /\ x4_L.t0.e[0] # x4_entry.preserve[0]

=============================================================================
